---- MODULE Spec2Model ----
(***************************************************************************)
(* Model of the terrain tile loader `Tile` (src/src/libs/Tile.js).         *)
(*                                                                         *)
(* One Tile instance.  Init is the state right after the constructor: the  *)
(* five material-texture loads are already in flight and lods is empty.    *)
(* Every promise continuation of load() is one action; the environment     *)
(* (network, texture loader) decides the outcome of each asynchronous      *)
(* operation.  load() may be called up to MaxLoads times on the instance,  *)
(* the calls interleaving freely on the single cooperative scheduler.      *)
(* The render loop's update() and camera moves, viewport resizes, loader   *)
(* errors and the fragment shader's band weights have their own            *)
(* specifications over the same state.                                     *)
(***************************************************************************)
EXTENDS Integers, Sequences, FiniteSets, TLC

\* ------------------------------------------------------------------ bounds
MaxLoads == 2      \* load() calls on the instance
MaxTiles == 2      \* tiles of the served tileset
MaxLevel == 3      \* LOD level count of the served tileset
MaxSegment == 3    \* base subdivision count segment.x of a tile
MaxDist == 2       \* value of getCameraDistance() (viewport / FOV dependent)
MaxSample == 100   \* largest vAmount the fragment shader is run for, in hundredths

Runs == 1..MaxLoads

\* ------------------------------------------------------- program constants
\* const textures = { ocean: ..., sandy: ..., ... }
textures ==
  [ocean |-> "dirt-512.jpg", sandy |-> "sand-512.jpg", grass |-> "grass-512.jpg",
   rocky |-> "rock-512.jpg", snowy |-> "snow-512.jpg"]

Materials == DOMAIN textures

\* null / undefined
Null == [null |-> TRUE]

\* 2 ** level
RECURSIVE Pow2(_)
Pow2(k) == IF k = 0 THEN 1 ELSE 2 * Pow2(k - 1)

\* the JavaScript quotient a / b of two numbers, kept exact as a fraction
Div(a, b) == [num |-> a, den |-> b]

\* ------------------------------------------------------- served tileset
\* TileDescriptor i of a tileset whose tiles have base segment counts sx, sy.
TileDescriptor(i, sx, sy) ==
  [filename |-> i,
   geometry |-> [width |-> 10, height |-> 20],
   segment  |-> [x |-> sx, y |-> sy],
   position |-> [x |-> 10 * i, y |-> 0]]

TileSetMetadata(n, L, sx, sy) ==
  [level |-> L, tiles |-> [i \in 1..n |-> TileDescriptor(i, sx, sy)]]

\* The tilesets the endpoint may serve in Spec: the orchestration depends on
\* the number of tiles only.
TileSets == { TileSetMetadata(n, MaxLevel, 1, MaxSegment) : n \in 1..MaxTiles }

\* The tilesets the builder is applied to in BuilderSpec.
BuilderTileSets ==
  { TileSetMetadata(n, L, sx, sy) :
      n \in 1..MaxTiles, L \in 1..MaxLevel, sx \in 1..MaxSegment, sy \in 1..MaxSegment }

VARIABLES
  tileSet,         \* the tileset the endpoint has served (Null before its first 2xx)
  viewDistance,    \* (renderer height / 2) / tan(vFov / 2) of the current view
  loads,           \* number of load() calls made so far
  pc,              \* pc[r]: where the promise chain of the r-th load() stands
  cameraDistance,  \* cameraDistance[r]: the const of load() line 74
  fetchState,      \* fetchState[r]: the fetch of loadTileInfo() in run r
  tileInfo,        \* this.tileInfo
  texState,        \* texState[m]: the constructor's loadTexture promise for m
  joinState,       \* this.getTextureUniform (Promise.props(...).then(...))
  textureUniform,  \* this.textureUniform
  hmState,         \* hmState[r]: the loadTexture promises of run r's mapSeries
  lods,            \* this.lods
  scene,           \* the LOD objects this instance added to this.scene
  log,             \* console.log lines, as a set of <<run, message>>
  requests,        \* what textureLoader.load was called for: [arg, url] records
  joinError,       \* the reason this.getTextureUniform rejected with
  promise,         \* promise[r]: the promise the r-th load() returned
  visible,         \* visible[k]: the levels of lods[k] whose mesh is visible
  cameraAt,        \* distance of this.camera from the LOD objects (the origin)
  vAmount,         \* the varying vAmount of a fragment, in hundredths
  weight           \* weight[b]: the factor of band b's texture in gl_FragColor

vars ==
  <<tileSet, viewDistance, loads, pc, cameraDistance, fetchState, tileInfo,
    texState, joinState, textureUniform, hmState, lods, scene, log,
    requests, joinError, promise, visible, cameraAt, vAmount, weight>>

\* -------------------------------------------------------- JavaScript values
\* undefined
Undefined == [undefined |-> TRUE]

\* NaN
NaN == [nan |-> TRUE]

\* a string, as the sequence of its parts
Str(parts) == [str |-> parts]

\* String(v)
ToStr(v) ==
  IF v = Undefined THEN <<"undefined">>
  ELSE IF v = NaN THEN <<"NaN">>
  ELSE v.str

\* the template literal `${a}/${b}`
Template(a, b) == Str(ToStr(a) \o <<"/">> \o ToStr(b))

\* obj[key]: undefined when obj has no property of that name
Prop(obj, key) ==
  IF Len(ToStr(key)) = 1 /\ ToStr(key)[1] \in DOMAIN obj
    THEN obj[ToStr(key)[1]]
    ELSE Undefined

\* n.key for a number n: a number has no own properties, and
\* Number.prototype has none of the names read here
NumberProp(n, key) == Prop([toFixed |-> "function", toString |-> "function"], key)

\* a + b: NaN for undefined + undefined, string concatenation when one
\* operand is a string
Plus(a, b) ==
  IF a \in {Undefined, NaN} /\ b \in {Undefined, NaN} THEN NaN
  ELSE Str(ToStr(a) \o ToStr(b))

\* the paths object handed to the constructor
paths ==
  [info |-> Str(<<"info">>), texture |-> Str(<<"texture">>),
   heightMap |-> Str(<<"heightMap">>)]

\* loadTexture(type, filename): the URL handed to this.textureLoader.load,
\* this.paths[type] + filename
loaderUrl(type, filename) == Plus(Prop(paths, type), filename)

\* loadTexture(type, filename): the Error it rejects with
loadTextureReject(type, filename) ==
  [message |-> "Texture loading failed. Filename: ", filename |-> filename]

\* the argument of the constructor's loadTexture call for material m
MaterialArg(m) == Template(paths.texture, Str(<<textures[m]>>))

\* the argument of load()'s loadTexture call for a tile
HeightMapArg(tile) == Template(paths.heightMap, Str(<<ToString(tile.filename)>>))

\* a loadTexture(arg) call as the texture loader sees it
Request(arg) == [arg |-> arg, url |-> loaderUrl(arg, Undefined)]

\* the loadTexture calls mapSeries has made for the tiles whose promise
\* exists
requestsOf(states, tiles) ==
  { Request(HeightMapArg(tiles[k])) : k \in {j \in 1..Len(states) : states[j] # "idle"} }

\* the error a property access on null / undefined throws
TypeError == [name |-> "TypeError"]

\* ------------------------------------------------------------ constructor
Constructed ==
  /\ tileSet = Null
  /\ viewDistance = MaxDist
  /\ loads = 0
  /\ pc = [r \in Runs |-> "Idle"]
  /\ cameraDistance = [r \in Runs |-> 0]
  /\ fetchState = [r \in Runs |-> "none"]
  /\ tileInfo = Null
  /\ texState = [m \in Materials |-> "inflight"]
  /\ joinState = "pending"
  /\ textureUniform = Null
  /\ hmState = [r \in Runs |-> <<>>]
  /\ lods = <<>>
  /\ scene = <<>>
  /\ log = {}
  /\ requests = { Request(MaterialArg(m)) : m \in Materials }
  /\ joinError = Null
  /\ promise = [r \in Runs |-> "none"]
  /\ visible = <<>>
  /\ cameraAt = 0

\* no fragment has been shaded
Init ==
  /\ Constructed
  /\ vAmount = 0
  /\ weight = Null

\* ------------------------------------------------------------- helpers
\* getCameraDistance(): (renderer height / 2) / tan(vFov / 2) of the view as
\* it is when the method is called.
getCameraDistance == viewDistance

\* What the texture loader does with the callback loadTexture hands it:
\* calls it with a THREE.Texture or calls it with something else. A loader
\* that does not call back leaves the promise in flight (loadTexture
\* registers no error callback): the settle step is then not taken.
LoaderOutcomes == {"texture", "other"}

\* loadTexture: the state of the returned promise once the loader is done.
loadTexture(outcome) ==
  CASE outcome = "texture" -> "resolved"
    [] outcome = "other"   -> "rejected"

\* What the metadata endpoint answers: 2xx with a valid body, a non-2xx
\* status, or a transport error / malformed body.
FetchOutcomes == {"ok", "notok", "error"}

\* The endpoint serves one tileset: the body of its first 2xx response is
\* the body of every later one.
Served == IF tileSet = Null THEN TileSets ELSE {tileSet}

\* Mutant: the response status is not looked at, the body is parsed and
\* returned whatever res.ok says.
loadTileInfoResultAnyStatus(outcome, body) == IF outcome = "error" THEN Null ELSE body

\* loadTileInfo(): the value its promise resolves with (null after the
\* WebService Error branch, undefined after the catch).
loadTileInfoResult(outcome, body) == IF outcome = "ok" THEN body ELSE Null

\* loadTileInfo(): what it writes to the console.
loadTileInfoLog(r, outcome) ==
  CASE outcome = "ok"    -> {}
    [] outcome = "notok" -> {<<r, "Tile::loadTileInfo() WebService Error">>}
    [] outcome = "error" -> {<<r, "Tile::loadTileInfo() Error">>}

\* Mutant: Promise.map instead of Promise.mapSeries, the mapper is called
\* for every tile at once.
mapAllStart(n) == [j \in 1..n |-> "inflight"]

\* Promise.mapSeries(tiles, ...): the mapper is called for the first tile.
mapSeriesStart(n) == [j \in 1..n |-> IF j = 1 THEN "inflight" ELSE "idle"]

\* Mutant: after tile j's height map the mapper is not called again.
mapSeriesNextStalls(states, j) ==
  [k \in 1..Len(states) |-> IF k = j THEN "resolved" ELSE states[k]]

\* Promise.mapSeries: tile j's promise resolved, the mapper is called for
\* the next tile.
mapSeriesNext(states, j) ==
  [k \in 1..Len(states) |->
     IF k = j THEN "resolved"
     ELSE IF k = j + 1 /\ states[k] = "idle" THEN "inflight"
     ELSE states[k]]

\* the texture the loader decodes from a URL
TextureFrom(url) == [image |-> url]

\* the height-map texture the loadTexture call for a tile resolves with: the
\* one decoded from the URL that call handed to the loader
HeightMapOf(tile) == TextureFrom(Request(HeightMapArg(tile)).url)

\* tileHeightMaps: the array mapSeries resolves with
tileHeightMapsOf(r, tiles) ==
  [j \in 1..Len(hmState[r]) |-> HeightMapOf(tiles[j])]

\* const levelUniforms = { heightMap, heightScale: level.heightScale, level,
\*                         ...this.textureUniform }
levelUniforms(tileHeightMap, level) ==
  [heightMap |-> tileHeightMap, heightScale |-> NumberProp(level, Str(<<"heightScale">>)),
   level |-> level,
   textures |-> textureUniform]

\* new THREE.PlaneGeometry(width, height, segment.x / 2**level, segment.y / 2**level)
levelGeometry(tile, level) ==
  [width |-> tile.geometry.width, height |-> tile.geometry.height,
   widthSegments  |-> Div(tile.segment.x, Pow2(level)),
   heightSegments |-> Div(tile.segment.y, Pow2(level))]

\* Mutant: the threshold grows linearly with the level instead of doubling.
levelDistanceLinear(distance, level) == distance * (level + 1)

\* the distance handed to lod.addLevel
levelDistance(distance, level) == distance * Pow2(level)

\* one pass of the for loop: the mesh and the distance it is registered at
levelMesh(tile, tileHeightMap, distance, level) ==
  [uniforms |-> levelUniforms(tileHeightMap, level),
   geometry |-> levelGeometry(tile, level),
   position |-> tile.position,
   distance |-> levelDistance(distance, level)]

\* the for loop over level = 0 .. tileInfo.level - 1; lod.addLevel in call order
lodLevels(info, tile, tileHeightMap, distance) ==
  [k \in 1..info.level |-> levelMesh(tile, tileHeightMap, distance, k - 1)]

\* Mutant: the camera distance is read when the LOD is built.
buildLODResampled(r, info, tileIndex, tileHeightMaps) ==
  [tile |-> tileIndex, run |-> r,
   levels |-> lodLevels(info, info.tiles[tileIndex],
                        IF tileIndex <= Len(tileHeightMaps)
                          THEN tileHeightMaps[tileIndex] ELSE Null,
                        getCameraDistance)]

\* the body of this.tileInfo.tiles.map((tile, tileIndex) => ...): the LOD of
\* one tile (tile and run record which tile and which load() built it)
buildLOD(r, info, tileIndex, tileHeightMaps) ==
  [tile |-> tileIndex, run |-> r,
   levels |-> lodLevels(info, info.tiles[tileIndex],
                        IF tileIndex <= Len(tileHeightMaps)
                          THEN tileHeightMaps[tileIndex] ELSE Null,
                        cameraDistance[r])]

\* the LODs the build continuation pushes, in tileset order
builtLODs(r, info) ==
  [i \in 1..Len(info.tiles) |-> buildLOD(r, info, i, tileHeightMapsOf(r, info.tiles))]

\* lod.addLevel: every mesh added to a LOD is visible until the LOD is
\* updated (levels are numbered from 0)
addedLevels(lod) == 0..(Len(lod.levels) - 1)

\* Mutant: the handler logs and throws the error again.
catchAndRethrow(r, err) ==
  /\ pc' = [pc EXCEPT ![r] = "Failed"]
  /\ log' = log \cup {<<r, "Tile::load() Error", err>>}
  /\ promise' = [promise EXCEPT ![r] = "rejected"]

\* .catch((err) => { console.log('Tile::load() Error', err) })
catch(r, err) ==
  /\ pc' = [pc EXCEPT ![r] = "Failed"]
  /\ log' = log \cup {<<r, "Tile::load() Error", err>>}
  /\ promise' = [promise EXCEPT ![r] = "fulfilled"]

\* ------------------------------------------------------------- actions
\* load(), up to the fetch: samples the camera distance, starts the fetch.
load(r) ==
  /\ pc[r] = "Idle"
  /\ r = loads + 1
  /\ loads' = loads + 1
  /\ cameraDistance' = [cameraDistance EXCEPT ![r] = getCameraDistance]
  /\ fetchState' = [fetchState EXCEPT ![r] = "inflight"]
  /\ pc' = [pc EXCEPT ![r] = "MetadataLoading"]
  /\ promise' = [promise EXCEPT ![r] = "pending"]
  /\ UNCHANGED <<tileSet, viewDistance, tileInfo, texState, joinState,
                 textureUniform, hmState, lods, scene, log,
                 requests, joinError, visible, cameraAt, vAmount, weight>>

\* The fetch of run r settles: loadTileInfo()'s continuations and the first
\* continuation of load(), which waits for getTextureUniform.
loadTileInfo(r, outcome, body) ==
  /\ pc[r] = "MetadataLoading"
  /\ fetchState[r] = "inflight"
  /\ body \in Served
  /\ tileSet' = IF outcome = "ok" THEN body ELSE tileSet
  /\ fetchState' = [fetchState EXCEPT ![r] = outcome]
  /\ tileInfo' = loadTileInfoResult(outcome, body)
  /\ log' = log \cup loadTileInfoLog(r, outcome)
  /\ pc' = [pc EXCEPT ![r] = "TexturesLoading"]
  /\ UNCHANGED <<viewDistance, loads, cameraDistance, texState,
                 joinState, textureUniform, hmState, lods, scene,
                 requests, joinError, promise, visible, cameraAt, vAmount, weight>>

\* Promise.props(...).then(...): pending until all five loadTexture promises
\* are fulfilled (then this.textureUniform is stored) or one is rejected.
getTextureUniform(states) ==
  IF \E m \in Materials : states[m] = "rejected" THEN "rejected"
  ELSE IF \A m \in Materials : states[m] = "resolved" THEN "resolved"
  ELSE "pending"

\* The loader is done with one of the five material textures; Promise.props
\* reacts to the settled promise.
materialTextureSettle(m, outcome) ==
  /\ texState[m] = "inflight"
  /\ texState' = [texState EXCEPT ![m] = loadTexture(outcome)]
  /\ joinState' = IF joinState = "pending" THEN getTextureUniform(texState') ELSE joinState
  /\ textureUniform' =
       IF joinState = "pending" /\ joinState' = "resolved"
         THEN [k \in Materials |-> textures[k]]
         ELSE textureUniform
  /\ joinError' =
       IF joinState = "pending" /\ joinState' = "rejected"
         THEN loadTextureReject(MaterialArg(m), Undefined)
         ELSE joinError
  /\ UNCHANGED <<tileSet, viewDistance, loads, pc, cameraDistance, fetchState,
                 tileInfo, hmState, lods, scene, log,
                 requests, promise, visible, cameraAt, vAmount, weight>>

\* Mutant: the first continuation does not return getTextureUniform, so the
\* second one runs without waiting for the material-texture join.
thenLoadHeightMapsUnjoined(r) ==
  /\ pc[r] = "TexturesLoading"
  /\ IF tileInfo = Null
       THEN catch(r, TypeError) /\ UNCHANGED <<hmState, requests>>
       ELSE /\ hmState' = [hmState EXCEPT ![r] = mapSeriesStart(Len(tileInfo.tiles))]
            /\ requests' = requests \cup requestsOf(hmState'[r], tileInfo.tiles)
            /\ pc' = [pc EXCEPT ![r] = "HeightMapsLoading"]
            /\ UNCHANGED <<log, promise>>
  /\ UNCHANGED <<tileSet, viewDistance, loads, cameraDistance, fetchState,
                 tileInfo, texState, joinState, textureUniform, lods, scene,
                 joinError, visible, cameraAt, vAmount, weight>>

\* The second continuation of load(): Promise.mapSeries over
\* this.tileInfo.tiles, or the catch when the join rejected or tileInfo is
\* null.
thenLoadHeightMaps(r) ==
  /\ pc[r] = "TexturesLoading"
  /\ joinState # "pending"
  /\ IF joinState = "rejected"
       THEN catch(r, joinError) /\ UNCHANGED <<hmState, requests>>
     ELSE IF tileInfo = Null
       THEN catch(r, TypeError) /\ UNCHANGED <<hmState, requests>>
     ELSE /\ hmState' = [hmState EXCEPT ![r] = mapSeriesStart(Len(tileInfo.tiles))]
          /\ requests' = requests \cup requestsOf(hmState'[r], tileInfo.tiles)
          /\ pc' = [pc EXCEPT ![r] =
                      IF Len(tileInfo.tiles) = 0 THEN "Building" ELSE "HeightMapsLoading"]
          /\ UNCHANGED <<log, promise>>
  /\ UNCHANGED <<tileSet, viewDistance, loads, cameraDistance, fetchState,
                 tileInfo, texState, joinState, textureUniform, lods, scene,
                 joinError, visible, cameraAt, vAmount, weight>>

\* Mutant: the LOD of tile j is built and attached as soon as its height
\* map resolves, before the next height map is requested.
heightMapSettleThenBuild(r, j, outcome) ==
  /\ pc[r] = "HeightMapsLoading"
  /\ j \in 1..Len(hmState[r])
  /\ hmState[r][j] = "inflight"
  /\ tileInfo # Null
  /\ hmState' = [hmState EXCEPT ![r] =
                   IF loadTexture(outcome) = "resolved"
                     THEN mapSeriesNext(hmState[r], j)
                     ELSE [hmState[r] EXCEPT ![j] = loadTexture(outcome)]]
  /\ lods' = IF loadTexture(outcome) = "resolved"
               THEN Append(lods, buildLOD(r, tileInfo, j, tileHeightMapsOf(r, tileInfo.tiles)))
               ELSE lods
  /\ scene' = lods'
  /\ visible' = [k \in 1..Len(lods') |->
                   IF k <= Len(visible) THEN visible[k] ELSE addedLevels(lods'[k])]
  /\ requests' = requests \cup requestsOf(hmState'[r], tileInfo.tiles)
  /\ pc' = [pc EXCEPT ![r] =
              IF loadTexture(outcome) = "rejected" THEN "Failed"
              ELSE IF \A k \in 1..Len(hmState[r]) : hmState'[r][k] = "resolved"
                THEN "Ready" ELSE "HeightMapsLoading"]
  /\ promise' = [promise EXCEPT ![r] =
                   IF pc'[r] = "HeightMapsLoading" THEN "pending" ELSE "fulfilled"]
  /\ UNCHANGED <<tileSet, viewDistance, loads, cameraDistance, fetchState,
                 tileInfo, texState, joinState, textureUniform, log,
                 joinError, cameraAt, vAmount, weight>>

\* The loader is done with the height map of tile j of run r.
heightMapSettle(r, j, outcome) ==
  /\ pc[r] = "HeightMapsLoading"
  /\ j \in 1..Len(hmState[r])
  /\ hmState[r][j] = "inflight"
  /\ CASE loadTexture(outcome) = "resolved" ->
            /\ hmState' = [hmState EXCEPT ![r] = mapSeriesNext(hmState[r], j)]
            /\ pc' = [pc EXCEPT ![r] =
                        IF \A k \in 1..Len(hmState[r]) : hmState'[r][k] = "resolved"
                          THEN "Building" ELSE "HeightMapsLoading"]
            /\ requests' = requests \cup requestsOf(hmState'[r], tileSet.tiles)
            /\ UNCHANGED <<log, promise>>
       [] loadTexture(outcome) = "rejected" ->
            /\ hmState' = [hmState EXCEPT ![r][j] = "rejected"]
            /\ catch(r, loadTextureReject(HeightMapArg(tileSet.tiles[j]), Undefined))
            /\ UNCHANGED requests
  /\ UNCHANGED <<tileSet, viewDistance, loads, cameraDistance, fetchState,
                 tileInfo, texState, joinState, textureUniform, lods, scene,
                 joinError, visible, cameraAt, vAmount, weight>>

\* The third continuation of load(): builds one LOD per tile of
\* this.tileInfo.tiles, pushes it to lods and adds it to the scene.
thenBuild(r) ==
  /\ pc[r] = "Building"
  /\ IF tileInfo = Null
       THEN catch(r, TypeError) /\ UNCHANGED <<lods, scene, visible>>
       ELSE /\ lods' = lods \o builtLODs(r, tileInfo)
            /\ scene' = scene \o builtLODs(r, tileInfo)
            /\ visible' = visible \o [i \in 1..Len(tileInfo.tiles) |->
                                        addedLevels(builtLODs(r, tileInfo)[i])]
            /\ pc' = [pc EXCEPT ![r] = "Ready"]
            /\ promise' = [promise EXCEPT ![r] = "fulfilled"]
            /\ UNCHANGED log
  /\ UNCHANGED <<tileSet, viewDistance, loads, cameraDistance, fetchState,
                 tileInfo, texState, joinState, textureUniform, hmState,
                 requests, joinError, cameraAt, vAmount, weight>>

\* every step but the caller's load()
Progress ==
  \/ \E r \in Runs, o \in FetchOutcomes, b \in TileSets : loadTileInfo(r, o, b)
  \/ \E m \in Materials, o \in LoaderOutcomes : materialTextureSettle(m, o)
  \/ \E r \in Runs : thenLoadHeightMaps(r)
  \/ \E r \in Runs, j \in 1..MaxTiles, o \in LoaderOutcomes : heightMapSettle(r, j, o)
  \/ \E r \in Runs : thenBuild(r)

Next ==
  \/ \E r \in Runs : load(r)
  \/ Progress

Spec == Init /\ [][Next]_vars

\* The asynchronous callbacks and continuations are eventually run (every
\* loader eventually calls back); the caller is free never to call load().
FairSpec == Spec /\ WF_vars(Progress)

\* ------------------------------------------------- the loader reports errors
\* textureLoader.load(url, {}, callback) passes no error callback: when the
\* loader reports an error (transport failure, undecodable image) neither
\* resolve nor reject is called.  "lost": the loader is done, the promise is
\* pending for good.
loadTextureOnError == "lost"

\* The loader fails on one of the five material textures.
materialTextureError(m) ==
  /\ texState[m] = "inflight"
  /\ texState' = [texState EXCEPT ![m] = loadTextureOnError]
  /\ UNCHANGED <<tileSet, viewDistance, loads, pc, cameraDistance, fetchState,
                 tileInfo, joinState, textureUniform, hmState, lods, scene, log,
                 requests, joinError, promise, visible, cameraAt, vAmount, weight>>

\* The loader fails on the height map of tile j of run r.
heightMapError(r, j) ==
  /\ pc[r] = "HeightMapsLoading"
  /\ j \in 1..Len(hmState[r])
  /\ hmState[r][j] = "inflight"
  /\ hmState' = [hmState EXCEPT ![r][j] = loadTextureOnError]
  /\ UNCHANGED <<tileSet, viewDistance, loads, pc, cameraDistance, fetchState,
                 tileInfo, texState, joinState, textureUniform, lods, scene, log,
                 requests, joinError, promise, visible, cameraAt, vAmount, weight>>

LoaderNext ==
  \/ Next
  \/ \E m \in Materials : materialTextureError(m)
  \/ \E r \in Runs, j \in 1..MaxTiles : heightMapError(r, j)

LoaderSpec == Init /\ [][LoaderNext]_vars

\* ---------------------------------------------------------- the render loop
\* where the render loop may put the camera: at the LOD objects, and at the
\* distance of the threshold of level 1 of the widest view
CameraPositions == {0, MaxDist * 2}

\* lod.update(camera), its loop: level 0 is shown, then each next level
\* replaces the one before it as long as the camera is at least as far as
\* the distance the level was added with
lodActive(levels, z) ==
  Cardinality({i \in 1..(Len(levels) - 1) : \A k \in 1..i : z >= levels[k + 1].distance})

\* Mutant: each call shows the level after the one shown before.
lodUpdateCycles(lod, vis, z) ==
  IF Len(lod.levels) > 1
    THEN {(Cardinality(vis) + lodActive(lod.levels, z)) % Len(lod.levels)}
    ELSE vis

\* lod.update(camera): the levels visible afterwards; a LOD of fewer than
\* two levels is left as it is
lodUpdate(lod, vis, z) ==
  IF Len(lod.levels) > 1 THEN {lodActive(lod.levels, z)} ELSE vis

\* Mutant: only the first LOD is asked to recompute.
updateFirstOnly ==
  /\ visible' = [k \in 1..Len(lods) |->
                   IF k = 1 THEN lodUpdate(lods[k], visible[k], cameraAt) ELSE visible[k]]
  /\ UNCHANGED <<tileSet, viewDistance, loads, pc, cameraDistance, fetchState,
                 tileInfo, texState, joinState, textureUniform, hmState, lods,
                 scene, log, requests, joinError, promise, cameraAt, vAmount, weight>>

\* update(): this.lods.map((lod) => { lod.update(this.camera) })
update ==
  /\ visible' = [k \in 1..Len(lods) |-> lodUpdate(lods[k], visible[k], cameraAt)]
  /\ UNCHANGED <<tileSet, viewDistance, loads, pc, cameraDistance, fetchState,
                 tileInfo, texState, joinState, textureUniform, hmState, lods,
                 scene, log, requests, joinError, promise, cameraAt, vAmount, weight>>

\* The render loop moves the camera between two frames.
moveCamera(z) ==
  /\ z # cameraAt
  /\ cameraAt' = z
  /\ UNCHANGED <<tileSet, viewDistance, loads, pc, cameraDistance, fetchState,
                 tileInfo, texState, joinState, textureUniform, hmState, lods,
                 scene, log, requests, joinError, promise, visible,
                 vAmount, weight>>

RenderNext ==
  \/ Next
  \/ update
  \/ \E z \in CameraPositions : moveCamera(z)

RenderSpec == Init /\ [][RenderNext]_vars

\* ------------------------------------------------------------- the viewport
\* The window is resized or the camera's fov is changed: getCameraDistance()
\* returns d from now on.
resize(d) ==
  /\ d # viewDistance
  /\ viewDistance' = d
  /\ UNCHANGED <<tileSet, loads, pc, cameraDistance, fetchState, tileInfo,
                 texState, joinState, textureUniform, hmState, lods, scene, log,
                 requests, joinError, promise, visible, cameraAt, vAmount, weight>>

\* The instance once the five material textures of the constructor have
\* loaded and this.textureUniform is stored, before any load() call, in a
\* view of any size.
ResizeInit ==
  /\ tileSet = Null
  /\ viewDistance \in 1..MaxDist
  /\ loads = 0
  /\ pc = [r \in Runs |-> "Idle"]
  /\ cameraDistance = [r \in Runs |-> 0]
  /\ fetchState = [r \in Runs |-> "none"]
  /\ tileInfo = Null
  /\ texState = [m \in Materials |-> "resolved"]
  /\ joinState = "resolved"
  /\ textureUniform = [m \in Materials |-> textures[m]]
  /\ hmState = [r \in Runs |-> <<>>]
  /\ lods = <<>>
  /\ scene = <<>>
  /\ log = {}
  /\ requests = { Request(MaterialArg(m)) : m \in Materials }
  /\ joinError = Null
  /\ promise = [r \in Runs |-> "none"]
  /\ visible = <<>>
  /\ cameraAt = 0
  /\ vAmount = 0
  /\ weight = Null

ResizeNext ==
  \/ \E r \in Runs : load(r)
  \/ \E r \in Runs, o \in FetchOutcomes, b \in TileSets : loadTileInfo(r, o, b)
  \/ \E r \in Runs : thenLoadHeightMaps(r)
  \/ \E r \in Runs, j \in 1..MaxTiles, o \in LoaderOutcomes : heightMapSettle(r, j, o)
  \/ \E r \in Runs : thenBuild(r)
  \/ \E d \in 1..MaxDist : resize(d)

ResizeSpec == ResizeInit /\ [][ResizeNext]_vars

\* ------------------------------------------------------ the fragment shader
\* GLSL smoothstep(edge0, edge1, x): t * t * (3 - 2 * t) for
\* t = clamp((x - edge0) / (edge1 - edge0), 0, 1); the edges and x in
\* hundredths, the value an exact fraction
smoothstep(edge0, edge1, x) ==
  IF x <= edge0 THEN Div(0, 1)
  ELSE IF x >= edge1 THEN Div(1, 1)
  ELSE LET n == x - edge0
           d == edge1 - edge0
       IN Div(n * n * (3 * d - 2 * n), d * d * d)

\* a - b of two fractions
Minus(a, b) == Div(a.num * b.den - b.num * a.den, a.den * b.den)

\* main() of fragmentShader: the factor each band's texture sample is
\* multiplied with
bandWeights(x) ==
  [ocean |-> Minus(smoothstep(1, 25, x), smoothstep(24, 26, x)),
   sandy |-> Minus(smoothstep(24, 27, x), smoothstep(28, 31, x)),
   grass |-> Minus(smoothstep(28, 32, x), smoothstep(35, 40, x)),
   rocky |-> Minus(smoothstep(30, 50, x), smoothstep(40, 70, x)),
   snowy |-> smoothstep(50, 65, x)]

\* a fragment whose interpolated height sample is any of the sampled values
ShaderInit ==
  /\ Constructed
  /\ vAmount \in 0..MaxSample
  /\ weight = Null

\* The fragment shader runs for the fragment.
fragmentShader ==
  /\ weight = Null
  /\ weight' = bandWeights(vAmount)
  /\ UNCHANGED <<tileSet, viewDistance, loads, pc, cameraDistance, fetchState,
                 tileInfo, texState, joinState, textureUniform, hmState, lods,
                 scene, log, requests, joinError, promise, visible, cameraAt,
                 vAmount>>

ShaderNext == fragmentShader

ShaderSpec == ShaderInit /\ [][ShaderNext]_vars

\* ------------------------------------------------------------ the builder
\* The instance just before the build continuation of its one load() runs:
\* metadata stored, the five textures joined, every height map resolved.
BuilderInit ==
  \E info \in BuilderTileSets, d \in 1..MaxDist :
    /\ tileSet = info
    /\ viewDistance = d
    /\ loads = 1
    /\ pc = [r \in Runs |-> IF r = 1 THEN "Building" ELSE "Idle"]
    /\ cameraDistance = [r \in Runs |-> IF r = 1 THEN d ELSE 0]
    /\ fetchState = [r \in Runs |-> IF r = 1 THEN "ok" ELSE "none"]
    /\ tileInfo = info
    /\ texState = [m \in Materials |-> "resolved"]
    /\ joinState = "resolved"
    /\ textureUniform = [m \in Materials |-> textures[m]]
    /\ hmState = [r \in Runs |->
                    IF r = 1 THEN [j \in 1..Len(info.tiles) |-> "resolved"] ELSE <<>>]
    /\ lods = <<>>
    /\ scene = <<>>
    /\ log = {}
    /\ requests = { Request(MaterialArg(m)) : m \in Materials }
                     \cup { Request(HeightMapArg(info.tiles[j])) : j \in 1..Len(info.tiles) }
    /\ joinError = Null
    /\ promise = [r \in Runs |-> IF r = 1 THEN "pending" ELSE "none"]
    /\ visible = <<>>
    /\ cameraAt = 0
    /\ vAmount = 0
    /\ weight = Null

BuilderNext == \E r \in Runs : thenBuild(r)

BuilderSpec == BuilderInit /\ [][BuilderNext]_vars

\* ------------------------------------------------- vocabulary of the claims
\* the LODs the r-th load() pushed
LodsBy(r) == SelectSeq(lods, LAMBDA l : l.run = r)

\* the tile indices of a sequence of LODs, in order
TilesOf(ls) == [k \in 1..Len(ls) |-> ls[k].tile]

\* run r has called loadTexture for the height map of tile j
HmInitiated(r, j) == j \in 1..Len(hmState[r]) /\ hmState[r][j] # "idle"

\* the loadTexture promise of tile j's height map in run r is pending
HmPending(r, j) == j \in 1..Len(hmState[r]) /\ hmState[r][j] \in {"inflight", "lost"}

\* loadTexture has been called for material m (the constructor calls it)
MaterialInitiated(m) == texState[m] \in {"inflight", "resolved", "rejected", "lost"}

\* the catch of the r-th load() has logged
Logged(r) == \E e \in log : e[1] = r /\ e[2] = "Tile::load() Error"

\* a fetch or a load has failed
SomeFailed ==
  \/ \E r \in Runs : fetchState[r] \in {"notok", "error"}
  \/ \E m \in Materials : texState[m] = "rejected"
  \/ \E r \in Runs : \E j \in 1..Len(hmState[r]) : hmState[r][j] = "rejected"

\* ------------------------------------------------------------------ claims
\* C1 (as stated): in every load(), the height-map load for tile i+1 does
\* not begin before tile i's LODMesh has been attached to the scene (loads
\* and builds alternate per tile).
C1_LoadsAndBuildsAlternate ==
  \A r \in Runs : \A j \in 2..MaxTiles :
    HmInitiated(r, j) => \E k \in 1..Len(scene) : scene[k].run = r /\ scene[k].tile = j - 1

\* C1 (amended): in every load(), every height map of the tileset is loaded
\* and resolved before the first LODMesh of that load() is built: while a
\* height-map load of the run is outstanding the run has attached nothing,
\* and what a run has attached is the whole tileset, in tileset order, built
\* in the one continuation that follows the last height map.
C1_LoadAllThenBuildAll ==
  \A r \in Runs :
    /\ pc[r] \in {"HeightMapsLoading", "Building"} => LodsBy(r) = <<>>
    /\ LodsBy(r) # <<>> =>
         /\ pc[r] = "Ready"
         /\ \A j \in 1..Len(hmState[r]) : hmState[r][j] = "resolved"
         /\ TilesOf(LodsBy(r)) = [k \in 1..Len(hmState[r]) |-> k]
         /\ SelectSeq(scene, LAMBDA l : l.run = r) = LodsBy(r)

\* C1 witness: a load() of a tileset of at least two tiles has attached its
\* LODs.
C1_Witness ==
  \E r \in Runs : pc[r] = "Ready" /\ Len(LodsBy(r)) >= 2

\* the metadata endpoint answers non-2xx: some load() got a non-2xx status
\* and none got a 2xx one
Non2xx ==
  /\ \E r \in Runs : fetchState[r] = "notok"
  /\ \A r \in Runs : fetchState[r] \in {"none", "inflight", "notok"}

\* C2 (as stated): if the metadata endpoint returns a non-2xx status, no
\* material-texture load and no height-map load is ever initiated over the
\* lifetime of the instance (construction included), and a load() that has
\* ended has ended Failed.
C2_NoLoadAfterNon2xx ==
  Non2xx =>
    /\ \A m \in Materials : ~MaterialInitiated(m)
    /\ \A r \in Runs : \A j \in 1..MaxTiles : ~HmInitiated(r, j)
    /\ \A r \in Runs : pc[r] # "Ready"

\* C2 (amended): the five material-texture loads are initiated by the
\* constructor, whatever the endpoint answers; if the endpoint returns a
\* non-2xx status, tileInfo is null, no height-map load is ever initiated,
\* no LODMesh is built, and each load() that got the non-2xx status reaches
\* Failed (its catch logs) once the material-texture join has settled.
C2_Non2xxFailsWithoutHeightMaps ==
  /\ [](\A m \in Materials : MaterialInitiated(m))
  /\ [](Non2xx =>
          /\ tileInfo = Null
          /\ \A r \in Runs : \A j \in 1..MaxTiles : ~HmInitiated(r, j)
          /\ lods = <<>> /\ scene = <<>>
          /\ \A r \in Runs :
               /\ pc[r] \in {"Idle", "MetadataLoading", "TexturesLoading", "Failed"}
               /\ pc[r] = "Failed" => Logged(r))
  /\ \A r \in Runs :
       (fetchState[r] = "notok" /\ joinState # "pending") ~> (pc[r] = "Failed" \/ ~Non2xx)

\* C2 witness: a load() whose metadata response was non-2xx has reached
\* Failed after all five material textures resolved.
C2_Witness ==
  \E r \in Runs :
    /\ Non2xx /\ fetchState[r] = "notok" /\ pc[r] = "Failed"
    /\ joinState = "resolved" /\ <<r, "Tile::load() Error", TypeError>> \in log

\* the metadata fetch of run r, a material-texture load, or a height-map
\* load of run r has failed
RunFailed(r) ==
  \/ fetchState[r] \in {"notok", "error"}
  \/ pc[r] # "Idle" /\ \E m \in Materials : texState[m] = "rejected"
  \/ \E j \in 1..Len(hmState[r]) : hmState[r][j] = "rejected"

\* C3 (as stated): if the metadata fetch, one of the five material-texture
\* loads or the height-map load of a tile k fails, that load() never pushes
\* an LODMesh to lods or to the scene, initiates no height-map load for a
\* tile after k, and ends in Failed with the failure logged (never in Ready).
C3_FailureIsFatal ==
  \A r \in Runs :
    RunFailed(r) =>
      /\ LodsBy(r) = <<>>
      /\ \A k \in 1..Len(scene) : scene[k].run # r
      /\ \A k \in 1..Len(hmState[r]) :
           hmState[r][k] = "rejected" =>
             \A j \in (k + 1)..Len(hmState[r]) : hmState[r][j] = "idle"
      /\ pc[r] # "Ready"
      /\ pc[r] = "Failed" => Logged(r)

\* the five-texture record the constructor's join stores
FullTextureUniform == [m \in Materials |-> textures[m]]

\* C4: in every interleaving of the metadata fetch and the five material
\* texture loads, no LODMesh is built or added to the scene before all five
\* material textures have resolved and been stored in textureUniform, and
\* every LODMesh is built from a height map of its own tile that has
\* resolved.
C4_JoinBeforeShading ==
  /\ (lods # <<>> \/ scene # <<>>) =>
       /\ \A m \in Materials : texState[m] = "resolved"
       /\ joinState = "resolved"
       /\ textureUniform = FullTextureUniform
  /\ \A k \in 1..Len(lods) :
       /\ lods[k].tile \in 1..Len(hmState[lods[k].run])
       /\ hmState[lods[k].run][lods[k].tile] = "resolved"
       /\ \A v \in 1..Len(lods[k].levels) :
            /\ lods[k].levels[v].uniforms.textures = FullTextureUniform
            /\ lods[k].levels[v].uniforms.heightMap # Null

\* C4 witness: a load() has put the LODs of a tileset of at least two tiles
\* into the scene.
C4_Witness ==
  /\ Len(scene) >= 2
  /\ \E r \in Runs : pc[r] = "Ready"

\* C5: the height-map loads of one load() are strictly sequential in tileset
\* order: at most one is pending at any moment, the load for tile j is
\* initiated only after the one for tile j-1 has resolved, and none is
\* initiated before the run's metadata fetch has settled with metadata
\* stored and all five material textures have resolved.
C5_SequentialHeightMaps ==
  \A r \in Runs :
    /\ Cardinality({j \in 1..Len(hmState[r]) : HmPending(r, j)}) <= 1
    /\ \A j \in 2..Len(hmState[r]) : HmInitiated(r, j) => hmState[r][j - 1] = "resolved"
    /\ (\E j \in 1..Len(hmState[r]) : HmInitiated(r, j)) =>
         /\ fetchState[r] \in FetchOutcomes
         /\ \E q \in Runs : fetchState[q] = "ok"
         /\ joinState = "resolved"
         /\ \A m \in Materials : texState[m] = "resolved"

\* C5 witness: the second tile's height map is in flight after the first
\* one resolved.
C5_Witness ==
  \E r \in Runs :
    /\ Len(hmState[r]) >= 2
    /\ hmState[r][1] = "resolved"
    /\ hmState[r][2] = "inflight"

\* the order of the Orchestrator's states: one step of a load() goes along
\* one of these edges
StateEdges ==
  {<<"Idle", "MetadataLoading">>, <<"MetadataLoading", "TexturesLoading">>,
   <<"TexturesLoading", "HeightMapsLoading">>, <<"HeightMapsLoading", "Building">>,
   <<"Building", "Ready">>}
  \cup ({"MetadataLoading", "TexturesLoading", "HeightMapsLoading", "Building"} \X {"Failed"})

\* C6: after load() is called, if no metadata fetch fails and every
\* material-texture and height-map load yields a valid texture, the load()
\* eventually reaches Ready (under fairness of the callbacks), with an
\* LODMesh for every tile of the tileset attached to the scene; its states
\* follow the order MetadataLoading, TexturesLoading, HeightMapsLoading,
\* Building, Ready; and Failed is reached only if some fetch or load failed.
C6_ProgressToReady ==
  /\ [][\A r \in Runs : pc'[r] # pc[r] => <<pc[r], pc'[r]>> \in StateEdges]_vars
  /\ [](\A r \in Runs :
          /\ pc[r] = "Ready" =>
               /\ tileSet # Null
               /\ TilesOf(LodsBy(r)) = [k \in 1..Len(tileSet.tiles) |-> k]
               /\ SelectSeq(scene, LAMBDA l : l.run = r) = LodsBy(r)
          /\ pc[r] = "Failed" => SomeFailed)
  /\ \A r \in Runs :
       (pc[r] # "Idle") ~> (pc[r] = "Ready" \/ SomeFailed)

\* C6 witness: a load() of a tileset of at least two tiles is Ready and
\* nothing has failed.
C6_Witness ==
  \E r \in Runs :
    /\ pc[r] = "Ready" /\ Len(LodsBy(r)) >= 2
    /\ ~SomeFailed

\* C7 (as stated): over any sequence of load() calls on one instance the
\* metadata endpoint is fetched at most once, and the cached metadata is
\* never replaced or cleared once it has been successfully set.
C7_FetchedOnce ==
  /\ Cardinality({r \in Runs : fetchState[r] # "none"}) <= 1
  /\ (\E r \in Runs : fetchState[r] = "ok") => tileInfo = tileSet

\* C8 (as stated): after any number of load() calls, lods and the LOD
\* objects the instance added to the scene hold at most one LODMesh per tile
\* of the tileset, and once a load() is Ready exactly one per tile, in
\* tileset order.
C8_OneLodPerTile ==
  /\ \A i \in 1..MaxTiles :
       /\ Cardinality({k \in 1..Len(lods) : lods[k].tile = i}) <= 1
       /\ Cardinality({k \in 1..Len(scene) : scene[k].tile = i}) <= 1
  /\ (\E r \in Runs : pc[r] = "Ready") =>
       /\ tileSet # Null
       /\ TilesOf(lods) = [k \in 1..Len(tileSet.tiles) |-> k]

\* C9: for every tileset with level = L >= 1 and every tile, the LODMesh
\* built for the tile has exactly L variants, registered in increasing level
\* order 0..L-1, variant i's threshold is cameraDistance * 2^i (the first is
\* cameraDistance, each next one twice the one before), so the thresholds
\* are strictly increasing.
C9_LevelsAndThresholds ==
  \A k \in 1..Len(lods) :
    LET lod == lods[k]
        d   == cameraDistance[lod.run]
    IN /\ tileSet # Null
       /\ Len(lod.levels) = tileSet.level
       /\ \A v \in 1..Len(lod.levels) :
            /\ lod.levels[v].uniforms.level = v - 1
            /\ lod.levels[v].distance = d * Pow2(v - 1)
            /\ v = 1 => lod.levels[v].distance = d
            /\ v > 1 =>
                 /\ lod.levels[v].distance = 2 * lod.levels[v - 1].distance
                 /\ lod.levels[v].distance > lod.levels[v - 1].distance

\* C9 witness: a LODMesh of three variants has been built for a camera
\* distance other than 1.
C9_Witness ==
  \E k \in 1..Len(lods) :
    /\ Len(lods[k].levels) >= 3
    /\ cameraDistance[lods[k].run] >= 2

\* C10 (as stated): for every tile with segment = {x, y} and every level
\* i in [0, L), the subdivision counts the builder uses for variant i are
\* x / 2^i and y / 2^i clamped to a minimum of 1, never below 1.
C10_SubdivisionClamped ==
  \A k \in 1..Len(lods) :
    \A v \in 1..Len(lods[k].levels) :
      LET g   == lods[k].levels[v].geometry
          seg == tileSet.tiles[lods[k].tile].segment
          Clamped(x, i) == IF x >= Pow2(i) THEN Div(x, Pow2(i)) ELSE Div(1, 1)
      IN /\ g.widthSegments.num >= g.widthSegments.den
         /\ g.heightSegments.num >= g.heightSegments.den
         /\ g.widthSegments = Clamped(seg.x, v - 1)
         /\ g.heightSegments = Clamped(seg.y, v - 1)

\* C11 (as stated): every loadTexture call settles: once the underlying
\* loader has finished or failed, the returned promise is resolved or
\* rejected, never left pending, so that a failed load takes its load() to
\* Failed.
C11_EveryCallSettles ==
  /\ \A m \in Materials : texState[m] # "lost"
  /\ \A r \in Runs : \A j \in 1..Len(hmState[r]) : hmState[r][j] # "lost"

C13_UpdateOnlyWhenReady ==
  /\ []((\A r \in Runs : pc[r] # "Ready") => lods = <<>> /\ visible = <<>>)
  /\ [][(lods' = lods /\ visible' # visible) =>
          /\ \E r \in Runs : pc[r] = "Ready"
          /\ visible' = [k \in 1..Len(lods) |-> lodUpdate(lods[k], visible[k], cameraAt)]
          /\ UNCHANGED <<tileSet, viewDistance, loads, pc, cameraDistance,
                         fetchState, tileInfo, texState, joinState, textureUniform,
                         hmState, lods, scene, log, requests, joinError, promise,
                         cameraAt, vAmount, weight>>]_vars

\* C13 witness: update() has recomputed both LODs of a two-tile tileset.
C13_Witness ==
  /\ Len(lods) >= 2
  /\ \A k \in 1..Len(lods) : Cardinality(visible[k]) = 1

C15_BlendEndpointsAndSign ==
  weight # Null =>
    /\ \A b \in Materials : weight[b].num >= 0 /\ weight[b].den > 0
    /\ vAmount = 0 =>
         /\ \A b \in Materials :
              weight[b].num * weight.ocean.den <= weight.ocean.num * weight[b].den
         /\ 10 * weight.ocean.num >= 9 * weight.ocean.den
    /\ vAmount = 100 =>
         /\ weight.snowy.num = weight.snowy.den
         /\ \A b \in Materials \ {"snowy"} : weight[b].num = 0

\* C16 (as stated): whenever a loadTexture call of the constructor or of
\* load() fails, the error it rejects with (the reason of the rejected join,
\* the error load() logs) names the path that was passed to that call.
C16_ErrorCarriesPath ==
  /\ joinState = "rejected" =>
       \E m \in Materials : joinError.filename = MaterialArg(m)
  /\ \A e \in log :
       (Len(e) = 3 /\ e[3] # TypeError) =>
         \E q \in requests : e[3].filename = q.arg

\* C17 (as stated): the five material-texture calls request
\* <paths.texture>/<material file>, the call of tile i requests
\* <paths.heightMap>/<tiles[i].filename>, and the URL handed to the texture
\* loader is the argument that was passed to loadTexture.
C17_RequestsComposedPath ==
  /\ \A m \in Materials :
       [arg |-> MaterialArg(m), url |-> MaterialArg(m)] \in requests
  /\ \A r \in Runs : \A j \in 1..Len(hmState[r]) :
       HmInitiated(r, j) =>
         [arg |-> HeightMapArg(tileSet.tiles[j]),
          url |-> HeightMapArg(tileSet.tiles[j])] \in requests
  /\ \A q \in requests : q.url = q.arg

\* C18 (as stated): every mesh variant load() builds, for every tile and
\* every level in [0, L), has a defined heightScale shader parameter.
C18_HeightScaleDefined ==
  \A k \in 1..Len(lods) :
    \A v \in 1..Len(lods[k].levels) :
      lods[k].levels[v].uniforms.heightScale # Undefined

\* C19 (as stated): for every tile i, all variants of its LOD carry the
\* height map loaded from tiles[i].filename, the shared five-texture set
\* and their own level index, and are positioned at tiles[i].position with
\* the width and height of tiles[i].geometry.
C19_TileBuiltFromOwnData ==
  \A k \in 1..Len(lods) :
    \A v \in 1..Len(lods[k].levels) :
      LET tile == tileSet.tiles[lods[k].tile]
          mesh == lods[k].levels[v]
      IN /\ mesh.uniforms.heightMap = TextureFrom(HeightMapArg(tile))
         /\ mesh.uniforms.textures = textureUniform
         /\ mesh.uniforms.level = v - 1
         /\ mesh.position = tile.position
         /\ mesh.geometry.width = tile.geometry.width
         /\ mesh.geometry.height = tile.geometry.height

\* C20: the base camera distance is sampled once per load(), in the step
\* in which load() is called, and is the value getCameraDistance() has
\* then; it is not sampled again, every threshold of every LOD built by
\* that load() is this value times 2^level, and no later step (a resize of
\* the viewport or a change of the fov while loading or after Ready among
\* them) changes a threshold of an LOD that exists.
C20_DistanceSampledOnce ==
  /\ [][\A r \in Runs :
          /\ (pc[r] = "Idle" /\ pc'[r] # "Idle") => cameraDistance'[r] = viewDistance
          /\ pc[r] # "Idle" => cameraDistance'[r] = cameraDistance[r]]_vars
  /\ [](\A k \in 1..Len(lods) :
          \A v \in 1..Len(lods[k].levels) :
            lods[k].levels[v].distance = cameraDistance[lods[k].run] * Pow2(v - 1))
  /\ [][\A k \in 1..Len(lods) : k <= Len(lods') /\ lods'[k] = lods[k]]_vars

\* C20 witness: an LOD exists whose thresholds were computed from a view
\* that has been resized since load() was called.
C20_Witness ==
  \E k \in 1..Len(lods) :
    /\ Len(lods[k].levels) >= 2
    /\ cameraDistance[lods[k].run] # viewDistance
    /\ lods[k].levels[2].distance = cameraDistance[lods[k].run] * 2

====
